---------------------------- MODULE Spec2Model ----------------------------
(***************************************************************************)
(* iLevel MCP server: the tool dispatcher (index.ts, kept in              *)
(* src/CONTRIBUTING.md lines 189-802) and the remote API client           *)
(* (src/src/ilevel-client.ts).                                            *)
(*                                                                         *)
(* Text is a sequence of tokens.  A token is one character where the      *)
(* character matters to JSON (braces, brackets, colon, comma, quote,      *)
(* backslash, space, newline, minus, digits) and otherwise a word: an     *)
(* indivisible run of ordinary letters.  The JSON literals null, true and *)
(* false are words.                                                        *)
(***************************************************************************)
EXTENDS Integers, Sequences, FiniteSets, TLC

(***************************************************************************)
(* JavaScript values.                                                      *)
(***************************************************************************)
\* One record shape for every value, so that any two values compare: t is the
\* type tag, b a boolean, n a number, s a string's tokens, keys and kids an
\* object's property names and values in insertion order, kids alone an
\* array's elements.
JsValue(t, b, n, s, keys, kids) ==
    [t |-> t, b |-> b, n |-> n, s |-> s, keys |-> keys, kids |-> kids]

Undef      == JsValue("undef", FALSE, 0, <<>>, <<>>, <<>>)
Null       == JsValue("null", FALSE, 0, <<>>, <<>>, <<>>)
Bool(b)    == JsValue("bool", b, 0, <<>>, <<>>, <<>>)
Num(n)     == JsValue("num", FALSE, n, <<>>, <<>>, <<>>)
Str(s)     == JsValue("str", FALSE, 0, s, <<>>, <<>>)
Arr(elems) == JsValue("arr", FALSE, 0, <<>>, <<>>, elems)
Obj(props) ==
    JsValue("obj", FALSE, 0, <<>>,
            [i \in 1..Len(props) |-> props[i][1]],
            [i \in 1..Len(props) |-> props[i][2]])

\* the properties of an object value as <<name, value>> pairs
Props(val) == [i \in 1..Len(val.keys) |-> <<val.keys[i], val.kids[i]>>]

Quote     == "\""
Backslash == "\\"
Newline   == "\n"
Space     == " "

DigitChars == <<"0", "1", "2", "3", "4", "5", "6", "7", "8", "9">>

IsDigit(c) == \E d \in 1..10 : DigitChars[d] = c

DigitValue(c) == (CHOOSE d \in 1..10 : DigitChars[d] = c) - 1

RECURSIVE Digits(_)
Digits(n) ==
    IF n < 10 THEN <<DigitChars[n + 1]>>
    ELSE Digits(n \div 10) \o <<DigitChars[(n % 10) + 1]>>

\* Number::toString for the integers of the model
NumberToString(n) == IF n < 0 THEN <<"-">> \o Digits(0 - n) ELSE Digits(n)

RECURSIVE Concat(_)
Concat(texts) ==
    IF Len(texts) = 0 THEN <<>> ELSE Head(texts) \o Concat(Tail(texts))

RECURSIVE Join(_, _)
Join(texts, sep) ==
    IF Len(texts) = 0 THEN <<>>
    ELSE IF Len(texts) = 1 THEN texts[1]
    ELSE texts[1] \o sep \o Join(Tail(texts), sep)

\* property lookup on an object value: obj[key], undefined when absent
RECURSIVE GetProp(_, _)
GetProp(props, key) ==
    IF Len(props) = 0 THEN Undef
    ELSE IF props[1][1] = key THEN props[1][2]
    ELSE GetProp(Tail(props), key)

HasProp(props, key) == \E i \in 1..Len(props) : props[i][1] = key

\* obj[key] = val: an existing key keeps its place, a new key goes last
SetProp(props, key, val) ==
    IF HasProp(props, key)
    THEN [i \in 1..Len(props) |->
            IF props[i][1] = key THEN <<key, val>> ELSE props[i]]
    ELSE Append(props, <<key, val>>)

(***************************************************************************)
(* JSON.stringify(value, null, gap)                                        *)
(***************************************************************************)
EscapeChar(c) ==
    IF c = Quote THEN <<Backslash, Quote>>
    ELSE IF c = Backslash THEN <<Backslash, Backslash>>
    ELSE IF c = Newline THEN <<Backslash, "n">>
    ELSE <<c>>

QuoteJSONString(s) ==
    <<Quote>> \o Concat([i \in 1..Len(s) |-> EscapeChar(s[i])]) \o <<Quote>>

RECURSIVE SelectDefined(_)
SelectDefined(props) ==
    IF Len(props) = 0 THEN <<>>
    ELSE IF props[1][2].t = "undef" THEN SelectDefined(Tail(props))
    ELSE <<props[1]>> \o SelectDefined(Tail(props))

RECURSIVE SerializeJSONProperty(_, _, _)
SerializeJSONProperty(val, indent, gap) ==
    LET inner == indent \o gap
        open  == IF gap = <<>> THEN <<>> ELSE <<Newline>> \o inner
        sep   == IF gap = <<>> THEN <<",">> ELSE <<",", Newline>> \o inner
        close == IF gap = <<>> THEN <<>> ELSE <<Newline>> \o indent
        colon == IF gap = <<>> THEN <<":">> ELSE <<":", Space>>
    IN  CASE val.t = "null" -> <<"null">>
          [] val.t = "undef" -> <<"null">>
          [] val.t = "bool" -> IF val.b THEN <<"true">> ELSE <<"false">>
          [] val.t = "num" -> NumberToString(val.n)
          [] val.t = "str" -> QuoteJSONString(val.s)
          [] val.t = "arr" ->
                IF Len(val.kids) = 0 THEN <<"[", "]">>
                ELSE <<"[">> \o open
                     \o Join([i \in 1..Len(val.kids) |->
                                SerializeJSONProperty(val.kids[i], inner, gap)], sep)
                     \o close \o <<"]">>
          [] val.t = "obj" ->
                LET props == SelectDefined(Props(val))
                IN  IF Len(props) = 0 THEN <<"{", "}">>
                    ELSE <<"{">> \o open
                         \o Join([i \in 1..Len(props) |->
                                    QuoteJSONString(props[i][1]) \o colon
                                    \o SerializeJSONProperty(props[i][2], inner, gap)],
                                 sep)
                         \o close \o <<"}">>

\* JSON.stringify(value): no gap
JSONstringify(val) == SerializeJSONProperty(val, <<>>, <<>>)

\* JSON.stringify(value, null, 2)
JSONstringifyPretty(val) == SerializeJSONProperty(val, <<>>, <<Space, Space>>)

(***************************************************************************)
(* JSON.parse(text): a result [ok, val]; ok = FALSE is the SyntaxError.    *)
(***************************************************************************)
ParseFail == [ok |-> FALSE, val |-> Null, next |-> 0]

RECURSIVE SkipWs(_, _)
SkipWs(txt, i) ==
    IF i <= Len(txt) /\ txt[i] \in {Space, Newline} THEN SkipWs(txt, i + 1) ELSE i

RECURSIVE ParseString(_, _, _)
ParseString(txt, i, acc) ==
    IF i > Len(txt) THEN ParseFail
    ELSE IF txt[i] = Quote THEN [ok |-> TRUE, val |-> Str(acc), next |-> i + 1]
    ELSE IF txt[i] = Newline THEN ParseFail
    ELSE IF txt[i] = Backslash THEN
        IF i + 1 > Len(txt) THEN ParseFail
        ELSE IF txt[i + 1] = Quote THEN ParseString(txt, i + 2, Append(acc, Quote))
        ELSE IF txt[i + 1] = Backslash
             THEN ParseString(txt, i + 2, Append(acc, Backslash))
        ELSE IF txt[i + 1] = "n" THEN ParseString(txt, i + 2, Append(acc, Newline))
        ELSE ParseFail
    ELSE ParseString(txt, i + 1, Append(acc, txt[i]))

RECURSIVE ParseDigits(_, _, _)
ParseDigits(txt, i, acc) ==
    IF i <= Len(txt) /\ IsDigit(txt[i])
    THEN ParseDigits(txt, i + 1, acc * 10 + DigitValue(txt[i]))
    ELSE [ok |-> TRUE, val |-> Num(acc), next |-> i]

\* an integer: -? (0 | [1-9][0-9]*)
ParseNumber(txt, i) ==
    LET neg == txt[i] = "-"
        j   == IF neg THEN i + 1 ELSE i
    IN  IF j > Len(txt) \/ ~IsDigit(txt[j]) THEN ParseFail
        ELSE LET r == IF txt[j] = "0"
                      THEN [ok |-> TRUE, val |-> Num(0), next |-> j + 1]
                      ELSE ParseDigits(txt, j, 0)
             IN  IF neg THEN [r EXCEPT !.val = Num(0 - r.val.n)] ELSE r

RECURSIVE ParseValue(_, _)
RECURSIVE ParseElements(_, _, _)
RECURSIVE ParseMembers(_, _, _)

ParseValue(txt, i0) ==
    LET i == SkipWs(txt, i0)
    IN  IF i > Len(txt) THEN ParseFail
        ELSE CASE txt[i] = "null" -> [ok |-> TRUE, val |-> Null, next |-> i + 1]
               [] txt[i] = "true" -> [ok |-> TRUE, val |-> Bool(TRUE), next |-> i + 1]
               [] txt[i] = "false" -> [ok |-> TRUE, val |-> Bool(FALSE), next |-> i + 1]
               [] txt[i] = Quote -> ParseString(txt, i + 1, <<>>)
               [] txt[i] = "-" \/ IsDigit(txt[i]) -> ParseNumber(txt, i)
               [] txt[i] = "[" ->
                    LET j == SkipWs(txt, i + 1)
                    IN  IF j <= Len(txt) /\ txt[j] = "]"
                        THEN [ok |-> TRUE, val |-> Arr(<<>>), next |-> j + 1]
                        ELSE ParseElements(txt, j, <<>>)
               [] txt[i] = "{" ->
                    LET j == SkipWs(txt, i + 1)
                    IN  IF j <= Len(txt) /\ txt[j] = "}"
                        THEN [ok |-> TRUE, val |-> Obj(<<>>), next |-> j + 1]
                        ELSE ParseMembers(txt, j, <<>>)
               [] OTHER -> ParseFail

\* the elements of an array, from the first one up to the closing bracket
ParseElements(txt, i, acc) ==
    LET r == ParseValue(txt, i)
        j == SkipWs(txt, r.next)
    IN  IF ~r.ok \/ j > Len(txt) THEN ParseFail
        ELSE IF txt[j] = "," THEN ParseElements(txt, j + 1, Append(acc, r.val))
        ELSE IF txt[j] = "]"
             THEN [ok |-> TRUE, val |-> Arr(Append(acc, r.val)), next |-> j + 1]
        ELSE ParseFail

\* the members of an object, from the first key up to the closing brace
ParseMembers(txt, i0, acc) ==
    LET i == SkipWs(txt, i0)
    IN  IF i > Len(txt) \/ txt[i] # Quote THEN ParseFail
        ELSE LET k == ParseString(txt, i + 1, <<>>)
                 c == SkipWs(txt, k.next)
             IN  IF ~k.ok \/ c > Len(txt) \/ txt[c] # ":" THEN ParseFail
                 ELSE LET r == ParseValue(txt, c + 1)
                          j == SkipWs(txt, r.next)
                          props == SetProp(acc, k.val.s, r.val)
                      IN  IF ~r.ok \/ j > Len(txt) THEN ParseFail
                          ELSE IF txt[j] = "," THEN ParseMembers(txt, j + 1, props)
                          ELSE IF txt[j] = "}"
                               THEN [ok |-> TRUE, val |-> Obj(props), next |-> j + 1]
                          ELSE ParseFail

JSONparse(txt) ==
    LET r == ParseValue(txt, 1)
    IN  IF r.ok /\ SkipWs(txt, r.next) > Len(txt)
        THEN [ok |-> TRUE, val |-> r.val]
        ELSE [ok |-> FALSE, val |-> Null]

\* a template literal's ${value}: ToString(value)
RECURSIVE TemplateString(_)
TemplateString(val) ==
    CASE val.t = "undef" -> <<"undefined">>
      [] val.t = "null" -> <<"null">>
      [] val.t = "bool" -> IF val.b THEN <<"true">> ELSE <<"false">>
      [] val.t = "num" -> NumberToString(val.n)
      [] val.t = "str" -> val.s
      [] val.t = "arr" ->
            Join([i \in 1..Len(val.kids) |->
                    IF val.kids[i].t \in {"undef", "null"} THEN <<>>
                    ELSE TemplateString(val.kids[i])], <<",">>)
      [] val.t = "obj" -> <<"[object Object]">>

\* a JavaScript condition on a value: ToBoolean(value)
Truthy(val) ==
    CASE val.t \in {"undef", "null"} -> FALSE
      [] val.t = "bool" -> val.b
      [] val.t = "num" -> val.n # 0
      [] val.t = "str" -> Len(val.s) > 0
      [] OTHER -> TRUE

Word(w) == Str(<<w>>)

(***************************************************************************)
(* Errors.  A thrown value has the fields the handlers read: response      *)
(* (status, data) and request of an AxiosError, message of any Error, code *)
(* of an McpError.  What the host receives is an McpError: code, message.  *)
(***************************************************************************)
Thrown(cls, code, message, hasResponse, hasRequest, status, data) ==
    [cls |-> cls, code |-> code, message |-> message,
     hasResponse |-> hasResponse, hasRequest |-> hasRequest,
     status |-> status, data |-> data]

\* new McpError(code, message)
McpError(code, message) ==
    Thrown("McpError", code, <<"MCP error", Space, code, ":", Space>> \o message,
           FALSE, FALSE, 0, Undef)

\* const { prop } = args, with args undefined
DestructureError(prop) ==
    Thrown("TypeError", "",
           <<"Cannot destructure property", Space, prop, Space, "of undefined">>,
           FALSE, FALSE, 0, Undef)

NoError == [code |-> "", message |-> <<>>]

\* the error value as the host receives it
HostError(err) == [code |-> err.code, message |-> err.message]

(***************************************************************************)
(* The HTTP session of the client: axios.create({baseURL, auth, headers,   *)
(* timeout}) with the library's defaults for everything else.              *)
(***************************************************************************)
TimeoutMs == 30000

Request(method, url, params, data) ==
    [method |-> method, url |-> url, params |-> params, data |-> data]

NoRequest == Request(Undef, Undef, Undef, Undef)

\* what the network does with one request
Outcome(kind, status, body) == [kind |-> kind, status |-> status, body |-> body]

\* the default response transform: a non-empty body is JSON-parsed, and kept
\* as the string it is when it does not parse
TransformResponse(body) ==
    IF Len(body) = 0 THEN Str(body)
    ELSE LET r == JSONparse(body) IN IF r.ok THEN r.val ELSE Str(body)

\* the default validateStatus
ValidateStatus(status) == status >= 200 /\ status < 300

\* the settled promise of client.get / post / delete / request, after the
\* response interceptor (which logs and rejects with the same error)
Settle(outcome) ==
    IF outcome.kind = "response" /\ ValidateStatus(outcome.status)
    THEN [ok |-> TRUE, data |-> TransformResponse(outcome.body),
          err |-> Thrown("", "", <<>>, FALSE, FALSE, 0, Undef)]
    ELSE IF outcome.kind = "response"
    THEN [ok |-> FALSE, data |-> Undef,
          err |-> Thrown("AxiosError", "",
                         <<"Request failed with status code", Space>>
                            \o NumberToString(outcome.status),
                         TRUE, TRUE, outcome.status,
                         TransformResponse(outcome.body))]
    ELSE IF outcome.kind = "timeout"
    THEN [ok |-> FALSE, data |-> Undef,
          err |-> Thrown("AxiosError", "",
                         <<"timeout of", Space>> \o NumberToString(TimeoutMs)
                            \o <<"ms exceeded">>,
                         FALSE, TRUE, 0, Undef)]
    ELSE [ok |-> FALSE, data |-> Undef,
          err |-> Thrown("AxiosError", "", <<"Network Error">>,
                         FALSE, TRUE, 0, Undef)]

(***************************************************************************)
(* ILevelClient: every method issues one request and returns response.data *)
(***************************************************************************)
Path(p) == Str(<<p>>)

PathWithId(p, id) == Str(<<p>> \o TemplateString(id))

testConnectionRequest == Request(Word("get"), Path("/users"), Undef, Undef)

getUsers(params) == Request(Word("get"), Path("/users"), params, Undef)

getUser(userId) == Request(Word("get"), PathWithId("/users/", userId), Undef, Undef)

getClients(params) == Request(Word("get"), Path("/clients"), params, Undef)

getClient(clientId) ==
    Request(Word("get"), PathWithId("/clients/", clientId), Undef, Undef)

getPortfolios(params) == Request(Word("get"), Path("/webapp"), params, Undef)

getAssets(params) == Request(Word("get"), Path("/assets"), params, Undef)

getFunds(params) == Request(Word("get"), Path("/funds"), params, Undef)

getInvestments(params) == Request(Word("get"), Path("/investments"), params, Undef)

getDocuments(params) == Request(Word("get"), Path("/documents-api"), params, Undef)

getDocument(documentId) ==
    Request(Word("get"), PathWithId("/documents-api/", documentId), Undef, Undef)

getValuations(params) == Request(Word("get"), Path("/valuation-api"), params, Undef)

createValuation(data) == Request(Word("post"), Path("/valuation-api"), Undef, data)

queryData(query) == Request(Word("post"), Path("/data-retrieval"), Undef, query)

getWebhooks == Request(Word("get"), Path("/webhooks"), Undef, Undef)

\* createWebhook that wraps the data in a 'webhook' key
createWebhookWrapped(data) ==
    Request(Word("post"), Path("/webhooks"), Undef,
            Obj(<< <<<<"webhook">>, data>> >>))

createWebhook(data) == Request(Word("post"), Path("/webhooks"), Undef, data)

\* deleteWebhook that posts to the webhook's path
deleteWebhookByPost(webhookId) ==
    Request(Word("post"), PathWithId("/webhooks/", webhookId), Undef, Undef)

deleteWebhook(webhookId) ==
    Request(Word("delete"), PathWithId("/webhooks/", webhookId), Undef, Undef)

getCalculations(params) == Request(Word("get"), Path("/calcs-api"), params, Undef)

\* request(method, endpoint, data): the verb and the url as they were given
request(method, endpoint, data) == Request(method, endpoint, Undef, data)

\* String.prototype.toUpperCase on the verbs
ToUpperCase(w) ==
    CASE w = "get" -> "GET"
      [] w = "post" -> "POST"
      [] w = "put" -> "PUT"
      [] w = "delete" -> "DELETE"
      [] OTHER -> w

\* the verb of a request as it is sent: config.method, 'get' when there is
\* none, in upper case
WireMethod(req) ==
    IF Truthy(req.method)
    THEN [i \in 1..Len(TemplateString(req.method)) |->
             ToUpperCase(TemplateString(req.method)[i])]
    ELSE <<"GET">>

\* the body of a request as it is sent under the client's Content-Type
\* application/json: none for undefined data, a string that is JSON as it is,
\* JSON.stringify(data) otherwise
WireBody(req) ==
    IF req.data.t = "undef" THEN <<>>
    ELSE IF req.data.t = "str" /\ JSONparse(req.data.s).ok THEN req.data.s
    ELSE JSONstringify(req.data)

\* the query parameters of a request as they are sent: the keys of params
\* whose value is neither undefined nor null, none without params
WireParams(req) ==
    IF req.params.t = "obj"
    THEN SelectSeq(SelectDefined(Props(req.params)), LAMBDA kv : kv[2].t # "null")
    ELSE <<>>

\* the path of a request as it is sent, after the base URL
WirePath(req) == TemplateString(req.url)

\* testConnection with a catch that handles an error response only
testConnectionRethrows(settled) ==
    [threw |-> ~settled.ok /\ ~settled.err.hasResponse, value |-> settled.ok,
     err |-> settled.err]

\* try { await this.client.get('/users'); return true } catch { return false }
\* the result: the boolean returned, or the error that leaves the method
testConnection(settled) ==
    [threw |-> FALSE, value |-> settled.ok,
     err |-> Thrown("", "", <<>>, FALSE, FALSE, 0, Undef)]

(***************************************************************************)
(* index.ts: helpers                                                       *)
(***************************************************************************)
NoThrown == Thrown("", "", <<>>, FALSE, FALSE, 0, Undef)

\* How far a piece of handler code runs: to an await on a request, to its
\* return, to the error it throws, or to process.exit(code).
Step(kind, req, content, err, code) ==
    [kind |-> kind, req |-> req, content |-> content, err |-> err, code |-> code]

Await(req) == Step("await", req, <<>>, NoThrown, 0)

Return(content) == Step("return", NoRequest, content, NoThrown, 0)

Throw(err) == Step("throw", NoRequest, <<>>, err, 0)

Exit(code) == Step("exit", NoRequest, <<>>, NoThrown, code)

\* formatResponse with text: String(data)
formatResponseToString(data) == <<[type |-> "text", text |-> TemplateString(data)]>>

formatResponse(data) ==
    <<[type |-> "text",
       text |-> IF data.t = "str" THEN data.s ELSE JSONstringifyPretty(data)]>>

\* handleError whose message leaves the response body out
handleErrorStatusOnly(error) ==
    IF error.hasResponse
    THEN Throw(McpError("InternalError",
                        <<"iLevel API error:", Space>>
                           \o NumberToString(error.status)))
    ELSE IF error.hasRequest
    THEN Throw(McpError("InternalError",
                        <<"No response received from iLevel API">>))
    ELSE Throw(McpError("InternalError",
                        <<"Request failed:", Space>> \o error.message))

\* handleError without the error.request branch
handleErrorNoRequestBranch(error) ==
    IF error.hasResponse
    THEN Throw(McpError("InternalError",
                        <<"iLevel API error:", Space>>
                           \o NumberToString(error.status)
                           \o <<Space, "-", Space>> \o JSONstringify(error.data)))
    ELSE Throw(McpError("InternalError",
                        <<"Request failed:", Space>> \o error.message))

\* handleError written as main().catch is: log and process.exit(1)
handleErrorFatal(error) == Exit(1)

\* handleError(error): never returns
handleError(error) ==
    IF error.hasResponse
    THEN Throw(McpError("InternalError",
                        <<"iLevel API error:", Space>>
                           \o NumberToString(error.status)
                           \o <<Space, "-", Space>> \o JSONstringify(error.data)))
    ELSE IF error.hasRequest
    THEN Throw(McpError("InternalError",
                        <<"No response received from iLevel API">>))
    ELSE Throw(McpError("InternalError",
                        <<"Request failed:", Space>> \o error.message))

(***************************************************************************)
(* index.ts: the tools/list handler                                        *)
(***************************************************************************)
\* the catalog of the tools/list handler, in its order
CatalogTools ==
    <<"test_connection", "get_users", "get_user", "get_clients", "get_client",
      "get_portfolios", "get_assets", "get_funds", "get_investments",
      "get_documents", "get_document", "get_valuations", "create_valuation",
      "get_calculations", "query_data", "get_webhooks", "create_webhook",
      "delete_webhook", "custom_request">>

\* inputSchema.required of each tool of the catalog
RequiredFields(name) ==
    CASE name = "get_user" -> {"userId"}
      [] name = "get_client" -> {"clientId"}
      [] name = "get_document" -> {"documentId"}
      [] name = "create_valuation" -> {"data"}
      [] name = "query_data" -> {"query"}
      [] name = "create_webhook" -> {"url", "events"}
      [] name = "delete_webhook" -> {"webhookId"}
      [] name = "custom_request" -> {"method", "endpoint"}
      [] OTHER -> {}

\* a catalog with a twentieth tool that the switch has no case for
CatalogToolsWithReports == Append(CatalogTools, "get_reports")

\* return { tools: [...] }: the names of the tools returned
ListToolsHandler == CatalogTools

(***************************************************************************)
(* index.ts: the tools/call handler                                        *)
(***************************************************************************)
\* args.prop
Arg(args, prop) == GetProp(Props(args), <<prop>>)

\* args?.prop that gives the bag itself
OptionalArgWhole(args, prop) == args

\* args?.prop
OptionalArg(args, prop) == IF args.t = "undef" THEN Undef ELSE Arg(args, prop)

\* const { prop } = args; await the client method's request
Destructured(args, prop, req) ==
    IF args.t = "undef" THEN Throw(DestructureError(prop)) ELSE Await(req)

\* the switch on the tool name, up to the await of the client method
CallToolSwitch(name, args) ==
    CASE name = "test_connection" -> Await(testConnectionRequest)
      [] name = "get_users" -> Await(getUsers(args))
      [] name = "get_user" -> Destructured(args, "userId", getUser(Arg(args, "userId")))
      [] name = "get_clients" -> Await(getClients(args))
      [] name = "get_client" ->
            Destructured(args, "clientId", getClient(Arg(args, "clientId")))
      [] name = "get_portfolios" -> Await(getPortfolios(args))
      [] name = "get_assets" -> Await(getAssets(OptionalArg(args, "filters")))
      [] name = "get_funds" -> Await(getFunds(OptionalArg(args, "filters")))
      [] name = "get_investments" ->
            Await(getInvestments(OptionalArg(args, "filters")))
      [] name = "get_documents" -> Await(getDocuments(args))
      [] name = "get_document" ->
            Destructured(args, "documentId", getDocument(Arg(args, "documentId")))
      [] name = "get_valuations" ->
            Await(getValuations(OptionalArg(args, "filters")))
      [] name = "create_valuation" ->
            Destructured(args, "data", createValuation(Arg(args, "data")))
      [] name = "get_calculations" ->
            Await(getCalculations(OptionalArg(args, "filters")))
      [] name = "query_data" -> Destructured(args, "query", queryData(Arg(args, "query")))
      [] name = "get_webhooks" -> Await(getWebhooks)
      [] name = "create_webhook" -> Await(createWebhook(args))
      [] name = "delete_webhook" ->
            Destructured(args, "webhookId", deleteWebhook(Arg(args, "webhookId")))
      [] name = "custom_request" ->
            Destructured(args, "method",
                         request(Arg(args, "method"), Arg(args, "endpoint"),
                                 Arg(args, "data")))
      [] OTHER -> Throw(McpError("MethodNotFound", <<"Unknown tool:", Space, name>>))

\* the case labels of the switch, in its order
SwitchCases ==
    <<"test_connection", "get_users", "get_user", "get_clients", "get_client",
      "get_portfolios", "get_assets", "get_funds", "get_investments",
      "get_documents", "get_document", "get_valuations", "create_valuation",
      "get_calculations", "query_data", "get_webhooks", "create_webhook",
      "delete_webhook", "custom_request">>

\* the switch takes a case for the name, not its default branch
Routed(name) ==
    CallToolSwitch(name, Obj(<<>>))
        # Throw(McpError("MethodNotFound", <<"Unknown tool:", Space, name>>))

\* ConnectionReport that always reports a connection
ConnectionReportConnected(isConnected) ==
    Obj(<< <<<<"connected">>, Bool(TRUE)>>,
           <<<<"message">>, Word("Successfully connected to iLevel API")>> >>)

\* the value the test_connection case gives to formatResponse
ConnectionReport(isConnected) ==
    Obj(<< <<<<"connected">>, Bool(isConnected)>>,
           <<<<"message">>,
             IF isConnected THEN Word("Successfully connected to iLevel API")
             ELSE Word("Failed to connect to iLevel API")>> >>)

\* CallToolResume that issues a failed request once more
CallToolResumeRetry(call, settled) ==
    IF ~settled.ok /\ call.nreq < 2 THEN Await(call.req)
    ELSE IF call.name = "test_connection"
    THEN Return(formatResponse(ConnectionReport(settled.ok)))
    ELSE IF settled.ok THEN Return(formatResponse(settled.data))
    ELSE Throw(settled.err)

\* the rest of a case once the request of the suspended call has settled
CallToolResume(call, settled) ==
    IF call.name = "test_connection"
    THEN LET r == testConnection(settled)
         IN  IF r.threw THEN Throw(r.err)
             ELSE Return(formatResponse(ConnectionReport(r.value)))
    ELSE IF settled.ok THEN Return(formatResponse(settled.data))
    ELSE Throw(settled.err)

\* catch (error) { handleError(error) }
CallToolCatch(step) ==
    IF step.kind = "throw" THEN handleError(step.err) ELSE step

(***************************************************************************)
(* index.ts: the resources/read handler                                    *)
(***************************************************************************)
ConfigUri == "ilevel://config"

\* ConfigSnapshot that serialises the whole config object
ConfigSnapshotWhole(config) == config

ConfigSnapshot(config) ==
    Obj(<< <<<<"baseUrl">>, Arg(config, "baseUrl")>>,
           <<<<"username">>, Arg(config, "username")>>,
           <<<<"isSandbox">>, Arg(config, "isSandbox")>>,
           <<<<"apiVersion">>,
             IF Truthy(Arg(config, "apiVersion")) THEN Arg(config, "apiVersion")
             ELSE Word("v1")>> >>)

NoContents == <<>>

\* ReadResourceHandler without the check of the uri
ReadResourceHandlerAnyUri(uri, config) ==
    [kind |-> "return",
     contents |-> <<[uri |-> uri, mimeType |-> "application/json",
                     text |-> JSONstringifyPretty(ConfigSnapshot(config))]>>,
     requests |-> <<>>,
     err |-> NoThrown, code |-> 0]

ReadResourceHandler(uri, config) ==
    IF uri = ConfigUri
    THEN [kind |-> "return",
          contents |-> <<[uri |-> uri, mimeType |-> "application/json",
                          text |-> JSONstringifyPretty(ConfigSnapshot(config))]>>,
          requests |-> <<>>,
          err |-> NoThrown, code |-> 0]
    ELSE [kind |-> "throw", contents |-> NoContents, requests |-> <<>>,
          err |-> McpError("InvalidRequest", <<"Unknown resource:", Space, uri>>),
          code |-> 0]

(***************************************************************************)
(* index.ts: start of the process                                          *)
(***************************************************************************)
\* MissingRequired that forgets the password
MissingRequiredNoPassword(e) ==
    ~Truthy(e.ILEVEL_BASE_URL) \/ ~Truthy(e.ILEVEL_USERNAME)

\* !ILEVEL_BASE_URL || !ILEVEL_USERNAME || !ILEVEL_PASSWORD
MissingRequired(e) ==
    ~Truthy(e.ILEVEL_BASE_URL) \/ ~Truthy(e.ILEVEL_USERNAME)
        \/ ~Truthy(e.ILEVEL_PASSWORD)

\* const config: ILevelConfig = { baseUrl, username, password, isSandbox }
BuildConfig(e) ==
    Obj(<< <<<<"baseUrl">>, e.ILEVEL_BASE_URL>>,
           <<<<"username">>, e.ILEVEL_USERNAME>>,
           <<<<"password">>, e.ILEVEL_PASSWORD>>,
           <<<<"isSandbox">>, Bool(e.ILEVEL_SANDBOX = Word("true"))>> >>)

\* { ...base, ...props }
RECURSIVE Spread(_, _)
Spread(base, props) ==
    IF Len(props) = 0 THEN base
    ELSE Spread(SetProp(base, props[1][1], props[1][2]), Tail(props))

NoClient ==
    [built |-> FALSE, config |-> Undef, baseURL |-> <<>>, timeout |-> 0]

\* new ILevelClient(config)
ILevelClient(cfg) ==
    LET own == Obj(Spread(<< <<<<"apiVersion">>, Word("v1")>> >>, Props(cfg)))
    IN  [built |-> TRUE,
         config |-> own,
         baseURL |-> TemplateString(Arg(own, "baseUrl")) \o <<"/api/">>
                        \o TemplateString(Arg(own, "apiVersion")),
         timeout |-> TimeoutMs]

(***************************************************************************)
(* The environment: what the process is started with, what the host sends  *)
(* and what the remote service answers.                                    *)
(***************************************************************************)
MaxInFlight == 1

CallIds == 1..MaxInFlight

BaseUrls == {Undef, Str(<<>>), Word("https://sandapi.ilevelsolutions.com")}

Usernames == {Undef, Str(<<>>), Word("alice")}

Passwords == {Undef, Str(<<>>), Word("s3cret")}

SandboxFlags == {Undef, Word("true")}

Environments ==
    [ILEVEL_BASE_URL : BaseUrls, ILEVEL_USERNAME : Usernames,
     ILEVEL_PASSWORD : Passwords, ILEVEL_SANDBOX : SandboxFlags]

CatalogNames == {CatalogTools[i] : i \in 1..Len(CatalogTools)}

UnknownNames == {"get_everything", ""}

ToolNames == CatalogNames \cup UnknownNames

Filters == Obj(<< <<<<"status">>, Word("active")>> >>)

IdBag(prop) == Obj(<< <<<<prop>>, Str(<<"1", "2", "3">>)>> >>)

\* the argument bags the host sends with a tool name: none, an empty one,
\* and the ones that fit the tool's declared input
ArgBags(name) ==
    {Undef, Obj(<<>>)} \cup
    CASE name \in {"get_users", "get_clients", "get_portfolios", "get_documents",
                   "get_assets", "get_funds", "get_investments",
                   "get_valuations", "get_calculations"} ->
            {Obj(<< <<<<"page">>, Num(2)>>, <<<<"filters">>, Filters>> >>)}
      [] name = "get_user" -> {IdBag("userId")}
      [] name = "get_client" -> {IdBag("clientId")}
      [] name = "get_document" -> {IdBag("documentId")}
      [] name = "delete_webhook" -> {IdBag("webhookId")}
      [] name = "create_valuation" -> {Obj(<< <<<<"data">>, Filters>> >>)}
      [] name = "query_data" -> {Obj(<< <<<<"query">>, Filters>> >>)}
      [] name = "create_webhook" ->
            {Obj(<< <<<<"url">>, Word("https://x")>>,
                    <<<<"events">>, Arr(<<Word("a"), Word("b")>>)>>,
                    <<<<"retries">>, Num(3)>> >>)}
      [] name = "custom_request" ->
            {Obj(<< <<<<"method">>, Word("PUT")>>,
                    <<<<"endpoint">>, Word("/funds/7")>>,
                    <<<<"data">>, Filters>> >>),
             Obj(<< <<<<"endpoint">>, Word("/funds/7")>> >>)}
      [] OTHER -> {IdBag("userId")}

\* payloads the remote service may hold
Payloads ==
    {Obj(<< <<<<"id">>, Str(<<"1", "2", "3">>)>>, <<<<"name">>, Word("Acme")>> >>),
     Arr(<<Num(1), Word("a")>>),
     Num(42), Bool(TRUE), Null,
     Word("ok"), Str(<<"1", "2", "3">>), Str(<<"say", Space, Quote, "hi", Quote>>)}

\* bodies of successful responses: each payload as compact JSON, one JSON
\* body written with a space after the colon, and the empty body
Bodies ==
    {JSONstringify(p) : p \in Payloads} \cup
    {<<"{", Quote, "error", Quote, ":", Space, Quote, "denied", Quote, "}">>,
     <<>>}

\* the bodies of error responses
ErrorBodies ==
    {<<"{", Quote, "error", Quote, ":", Quote, "denied", Quote, "}">>,
     <<"{", Quote, "error", Quote, ":", Space, Quote, "denied", Quote, "}">>,
     <<"Not", Space, "Found">>,
     <<"no", Space, Quote, "such", Quote, Space, "user">>}

SuccessStatuses == {200}

ErrorStatuses == {404, 500}

Outcomes ==
    {Outcome("response", st, b) : st \in SuccessStatuses, b \in Bodies} \cup
    {Outcome("response", st, b) : st \in ErrorStatuses, b \in ErrorBodies} \cup
    {Outcome("noresponse", 0, <<>>), Outcome("timeout", 0, <<>>)}

Uris == {ConfigUri, "bad://uri", ""}

(***************************************************************************)
(* State                                                                   *)
(***************************************************************************)
VARIABLES
    env,        \* process.env as the process was started
    pc,         \* where the process is: start, exited, validated, main, ...
    exitCode,   \* the code of process.exit, once pc = "exited"
    config,     \* the config object of index.ts
    client,     \* the iLevelClient object
    probe,      \* the connectivity probe of main()
    calls,      \* the tools/call handlers that are suspended at an await
    netUsed,    \* TRUE once any outbound HTTP request was issued
    last        \* the invocation that just ended, until its response is sent

vars == <<env, pc, exitCode, config, client, probe, calls, netUsed, last>>

FreeCall ==
    [st |-> "free", name |-> "", args |-> Undef, req |-> NoRequest, nreq |-> 0]

NoOutcome == Outcome("none", 0, <<>>)

Completion(op, name, args, uri, outcome, nreq, ok, content, contents, tools, err) ==
    [op |-> op, name |-> name, args |-> args, uri |-> uri, outcome |-> outcome,
     nreq |-> nreq, ok |-> ok, content |-> content, contents |-> contents,
     tools |-> tools, err |-> err]

NoLast ==
    Completion("none", "", Undef, "", NoOutcome, 0, FALSE, <<>>, NoContents, <<>>,
               NoError)

NoProbe ==
    [st |-> "idle", req |-> NoRequest, outcome |-> NoOutcome,
     isConnected |-> FALSE, nreq |-> 0]

Init ==
    /\ env \in Environments
    /\ pc = "start"
    /\ exitCode = 0
    /\ config = Undef
    /\ client = NoClient
    /\ probe = NoProbe
    /\ calls = [i \in CallIds |-> FreeCall]
    /\ netUsed = FALSE
    /\ last = NoLast

(***************************************************************************)
(* Start of the process                                                    *)
(***************************************************************************)
\* if (missing) { console.error(...); process.exit(1) }
ValidateEnv ==
    /\ pc = "start"
    /\ IF MissingRequired(env)
       THEN pc' = "exited" /\ exitCode' = 1
       ELSE pc' = "validated" /\ exitCode' = exitCode
    /\ UNCHANGED <<env, config, client, probe, calls, netUsed, last>>

\* const config = {...}; const iLevelClient = new ILevelClient(config)
InitClient ==
    /\ pc = "validated"
    /\ config' = BuildConfig(env)
    /\ client' = ILevelClient(config')
    /\ pc' = "main"
    /\ UNCHANGED <<env, exitCode, probe, calls, netUsed, last>>

\* main() that connects the transport without the probe
MainSkipsProbe ==
    /\ pc = "main"
    /\ pc' = "connect"
    /\ UNCHANGED <<env, exitCode, config, client, probe, calls, netUsed, last>>

\* main(): await iLevelClient.testConnection()
Main ==
    /\ pc = "main"
    /\ probe' = [probe EXCEPT !.st = "waiting", !.req = testConnectionRequest,
                              !.nreq = probe.nreq + 1]
    /\ netUsed' = TRUE
    /\ pc' = "probing"
    /\ UNCHANGED <<env, exitCode, config, client, calls, last>>

\* the probe's request settles; main() logs the result, and an error that
\* leaves main() goes to main().catch: process.exit(1)
ProbeSettle(outcome) ==
    /\ pc = "probing"
    /\ LET r == testConnection(Settle(outcome))
       IN  IF r.threw
           THEN /\ pc' = "exited"
                /\ exitCode' = 1
                /\ probe' = [probe EXCEPT !.st = "failed", !.outcome = outcome]
           ELSE /\ pc' = "connect"
                /\ exitCode' = exitCode
                /\ probe' = [probe EXCEPT !.st = "done", !.outcome = outcome,
                                          !.isConnected = r.value]
    /\ UNCHANGED <<env, config, client, calls, netUsed, last>>

\* await server.connect(transport); of the probe only isConnected is left
Connect ==
    /\ pc = "connect"
    /\ pc' = "serving"
    /\ probe' = [probe EXCEPT !.outcome = NoOutcome]
    /\ UNCHANGED <<env, exitCode, config, client, calls, netUsed, last>>

(***************************************************************************)
(* Serving                                                                 *)
(***************************************************************************)
\* how an invocation that ran to its end appears to the host
Completed(op, name, args, uri, outcome, nreq, step) ==
    Completion(op, name, args, uri, outcome, nreq, step.kind = "return",
               IF op = "call_tool" THEN step.content ELSE <<>>,
               IF op = "read_resource" THEN step.contents ELSE NoContents,
               <<>>,
               IF step.kind = "throw" THEN HostError(step.err) ELSE NoError)

\* the handler slots are taken in order: the model's names for the handlers
\* that are suspended at the same time
FreeIds == {i \in DOMAIN calls : calls[i].st = "free"}

NextFreeId(id) == id \in FreeIds /\ \A i \in FreeIds : id <= i

\* tools/call arrives: the handler runs to its first await or to its end
CallTool(id, name, args) ==
    /\ pc = "serving"
    /\ last = NoLast
    /\ NextFreeId(id)
    /\ LET step == CallToolCatch(CallToolSwitch(name, args))
       IN  IF step.kind = "await"
           THEN /\ calls' = [calls EXCEPT ![id] =
                                [st |-> "suspended", name |-> name, args |-> args,
                                 req |-> step.req, nreq |-> 1]]
                /\ netUsed' = TRUE
                /\ UNCHANGED <<pc, exitCode, last>>
           ELSE IF step.kind = "exit"
           THEN /\ pc' = "exited"
                /\ exitCode' = step.code
                /\ UNCHANGED <<calls, netUsed, last>>
           ELSE /\ last' = Completed("call_tool", name, args, "", NoOutcome, 0, step)
                /\ UNCHANGED <<pc, exitCode, calls, netUsed>>
    /\ UNCHANGED <<env, config, client, probe>>

\* a handler that takes whichever response arrives: the one that has waited
\* longest in the lowest slot resumes
ResumedLowest(cs, id) ==
    cs[CHOOSE i \in DOMAIN cs :
          cs[i].st = "suspended"
              /\ \A j \in DOMAIN cs : cs[j].st = "suspended" => i <= j]

\* await this.client.get(...): the handler that resumes when the request of
\* slot id settles is the one that awaits the promise of that request
Resumed(cs, id) == cs[id]

\* the request of a suspended handler settles: the handler runs on
HttpSettle(id, outcome) ==
    /\ pc = "serving"
    /\ last = NoLast
    /\ calls[id].st = "suspended"
    /\ LET c == Resumed(calls, id)
           step == CallToolCatch(CallToolResume(c, Settle(outcome)))
       IN  IF step.kind = "await"
           THEN /\ calls' = [calls EXCEPT ![id].req = step.req,
                                          ![id].nreq = c.nreq + 1]
                /\ UNCHANGED <<pc, exitCode, last>>
           ELSE IF step.kind = "exit"
           THEN /\ pc' = "exited"
                /\ exitCode' = step.code
                /\ UNCHANGED <<calls, last>>
           ELSE /\ calls' = [calls EXCEPT ![id] = FreeCall]
                /\ last' = Completed("call_tool", c.name, c.args, "", outcome,
                                     c.nreq, step)
                /\ UNCHANGED <<pc, exitCode>>
    /\ UNCHANGED <<env, config, client, probe, netUsed>>

\* resources/read arrives: the handler has no await
ReadResource(uri) ==
    /\ pc = "serving"
    /\ last = NoLast
    /\ LET step == ReadResourceHandler(uri, config)
       IN  IF step.kind = "exit"
           THEN /\ pc' = "exited"
                /\ exitCode' = step.code
                /\ UNCHANGED <<netUsed, last>>
           ELSE /\ last' = Completed("read_resource", "", Undef, uri, NoOutcome,
                                     Len(step.requests), step)
                /\ netUsed' = (netUsed \/ Len(step.requests) > 0)
                /\ UNCHANGED <<pc, exitCode>>
    /\ UNCHANGED <<env, config, client, probe, calls>>

\* tools/list arrives: the handler returns its static array
ListTools ==
    /\ pc = "serving"
    /\ last = NoLast
    /\ last' = Completion("list_tools", "", Undef, "", NoOutcome, 0, TRUE, <<>>,
                          NoContents, ListToolsHandler, NoError)
    /\ UNCHANGED <<env, pc, exitCode, config, client, probe, calls, netUsed>>

\* the response (or the error) of the invocation that ended goes to the host
Respond ==
    /\ pc = "serving"
    /\ last # NoLast
    /\ last' = NoLast
    /\ UNCHANGED <<env, pc, exitCode, config, client, probe, calls, netUsed>>

Next ==
    \/ ValidateEnv
    \/ InitClient
    \/ Main
    \/ \E outcome \in Outcomes : ProbeSettle(outcome)
    \/ Connect
    \/ \E id \in CallIds, name \in ToolNames :
          \E args \in ArgBags(name) : CallTool(id, name, args)
    \/ \E id \in CallIds, outcome \in Outcomes : HttpSettle(id, outcome)
    \/ \E uri \in Uris : ReadResource(uri)
    \/ ListTools
    \/ Respond

Spec == Init /\ [][Next]_vars

(***************************************************************************)
(* Properties                                                              *)
(***************************************************************************)
\* does text hold sub as a run of consecutive tokens
Contains(text, sub) ==
    \E i \in 0..(Len(text) - Len(sub)) :
        \A j \in 1..Len(sub) : text[i + j] = sub[j]

\* the invocation that just ended was a tools/call of a catalog tool other
\* than test_connection
CatalogCallEnded ==
    last.op = "call_tool" /\ last.name \in CatalogNames \ {"test_connection"}

ErrorResponse(o) == o.kind = "response" /\ o.status \in ErrorStatuses

SuccessResponse(o) == o.kind = "response" /\ o.status \in SuccessStatuses

SpacedErrorBody ==
    <<"{", Quote, "error", Quote, ":", Space, Quote, "denied", Quote, "}">>

\* C1: a tools/call of a name that is not in the catalog, with any argument
\* bag, ends in an error of code MethodNotFound at the host.
C1_UnknownToolIsMethodNotFound ==
    (last.op = "call_tool" /\ last.name \notin CatalogNames)
        => (~last.ok /\ last.err.code = "MethodNotFound")

ReturnedPayload ==
    IF last.name = "test_connection"
    THEN ConnectionReport(SuccessResponse(last.outcome))
    ELSE IF JSONparse(last.outcome.body).ok THEN JSONparse(last.outcome.body).val
    ELSE Str(last.outcome.body)

OneTextItem == Len(last.content) = 1 /\ last.content[1].type = "text"

\* C3 as stated: a successful call of any tool, for any payload, returns one
\* content item of type text whose text deserialises to the payload.  (Stated
\* for the responses that have a body, so that there is a payload.)
C3_TextRoundTrips ==
    (last.op = "call_tool" /\ last.ok /\ Len(last.outcome.body) > 0)
        => /\ OneTextItem
           /\ JSONparse(last.content[1].text).ok
           /\ JSONparse(last.content[1].text).val = ReturnedPayload

\* C3 as amended: one content item of type text; for a payload that is not a
\* string its text deserialises to the payload, and for a string payload the
\* text is the string itself, not its JSON serialisation.
C3_TextRoundTripsUnlessString ==
    (last.op = "call_tool" /\ last.ok)
        => /\ OneTextItem
           /\ ReturnedPayload.t # "str"
                 => /\ JSONparse(last.content[1].text).ok
                    /\ JSONparse(last.content[1].text).val = ReturnedPayload
           /\ ReturnedPayload.t = "str"
                 => last.content[1].text = ReturnedPayload.s

C3_Witness ==
    /\ last.op = "call_tool"
    /\ last.ok
    /\ last.name = "get_user"
    /\ ReturnedPayload = Str(<<"1", "2", "3">>)
    /\ JSONparse(last.content[1].text).val = Num(123)

SomeRequiredMissing ==
    \E v \in {env.ILEVEL_BASE_URL, env.ILEVEL_USERNAME, env.ILEVEL_PASSWORD} :
        v = Undef \/ v = Str(<<>>)

\* C4: the connectivity probe never raises (the process exits only for a
\* missing configuration input, never because of the probe); it issues one
\* GET /users and returns true exactly when that request succeeded.
C4_ProbeIsBoolean ==
    /\ pc = "exited" => SomeRequiredMissing
    /\ pc = "connect"
          => /\ probe.st = "done"
             /\ probe.nreq = 1
             /\ probe.req = Request(Word("get"), Path("/users"), Undef, Undef)
             /\ probe.isConnected = SuccessResponse(probe.outcome)

C4_Witness ==
    pc = "connect" /\ probe.outcome.kind = "timeout" /\ ~probe.isConnected

NoResponseMessage ==
    <<"MCP error", Space, "InternalError", ":", Space,
      "No response received from iLevel API">>

\* C5: when no response is received for a catalog tool's request (transport
\* failure or timeout), the call ends in an InternalError with the generic
\* no-response message, which holds no HTTP status.
C5_NoResponseIsGenericInternalError ==
    (CatalogCallEnded /\ last.outcome.kind \in {"noresponse", "timeout"})
        => /\ ~last.ok
           /\ last.err = [code |-> "InternalError", message |-> NoResponseMessage]
           /\ \A st \in SuccessStatuses \cup ErrorStatuses :
                 ~Contains(last.err.message, NumberToString(st))

C5_Witness ==
    CatalogCallEnded /\ last.outcome.kind = "timeout" /\ ~last.ok

\* C6: with any of base URL, username and password missing or empty, the
\* process gets no further than its exit with a non-zero code: the client is
\* not constructed and no outbound request, the probe included, is issued.
C6_MissingConfigExitsBeforeNetwork ==
    SomeRequiredMissing
        => /\ pc \in {"start", "exited"}
           /\ pc = "exited" => exitCode # 0
           /\ ~client.built
           /\ ~netUsed
           /\ probe.nreq = 0

C6_Witness ==
    /\ pc = "exited"
    /\ exitCode = 1
    /\ env.ILEVEL_PASSWORD = Str(<<>>)
    /\ Truthy(env.ILEVEL_BASE_URL)
    /\ Truthy(env.ILEVEL_USERNAME)

\* C7: resources/read of any uri other than the configuration uri ends in an
\* error of code InvalidRequest and issues no outbound request.
C7_UnknownUriIsInvalidRequest ==
    (last.op = "read_resource" /\ last.uri # ConfigUri)
        => /\ ~last.ok
           /\ last.err.code = "InvalidRequest"
           /\ last.contents = NoContents
           /\ last.nreq = 0

C7_Witness ==
    last.op = "read_resource" /\ last.uri = "bad://uri" /\ ~last.ok

\* the snapshot the process was started for
StartSnapshot ==
    Obj(<< <<<<"baseUrl">>, env.ILEVEL_BASE_URL>>,
           <<<<"username">>, env.ILEVEL_USERNAME>>,
           <<<<"isSandbox">>, Bool(env.ILEVEL_SANDBOX = Word("true"))>>,
           <<<<"apiVersion">>, Word("v1")>> >>)

\* C8: resources/read of the configuration uri returns JSON with exactly the
\* fields baseUrl, username, isSandbox and apiVersion, with the values of the
\* process start; there is no password field; whatever tool calls came before.
C8_ConfigSnapshotIsFixed ==
    (last.op = "read_resource" /\ last.uri = ConfigUri)
        => /\ last.ok
           /\ Len(last.contents) = 1
           /\ JSONparse(last.contents[1].text).ok
           /\ JSONparse(last.contents[1].text).val = StartSnapshot
           /\ ~HasProp(Props(JSONparse(last.contents[1].text).val), <<"password">>)

C8_Witness ==
    /\ last.op = "read_resource"
    /\ last.uri = ConfigUri
    /\ last.ok
    /\ env.ILEVEL_SANDBOX = Word("true")
    /\ \E id \in CallIds : calls[id].st = "suspended"

\* C9: a tools/call issues at most one outbound request: a failed request is
\* not issued again, and an unknown tool name issues none.
C9_AtMostOneRequest ==
    /\ \A id \in CallIds : calls[id].nreq <= 1
    /\ last.op = "call_tool"
          => /\ last.nreq <= 1
             /\ last.name \notin CatalogNames => last.nreq = 0
             /\ last.outcome # NoOutcome => last.nreq = 1

C9_Witness ==
    /\ CatalogCallEnded
    /\ last.outcome.kind = "noresponse"
    /\ last.nreq = 1
    /\ ~last.ok

EndedInResponseOrHostError ==
    \/ /\ last.ok
       /\ last.err = NoError
       /\ Len(last.content) = 1 \/ Len(last.contents) = 1 \/ Len(last.tools) > 0
    \/ /\ ~last.ok
       /\ last.err.code \in {"InternalError", "InvalidRequest", "MethodNotFound"}
       /\ last.content = <<>>
       /\ last.contents = NoContents
       /\ last.tools = <<>>

\* C10: once the server is serving, every invocation (any tool name, any
\* argument bag or none, any remote outcome) ends in a response or in a host
\* error value, and the process does not exit: it stays serving.
C10_ServingNeverExits ==
    /\ [](last.op # "none" => EndedInResponseOrHostError)
    /\ [][pc = "serving" => pc' = "serving" /\ exitCode' = exitCode]_vars

C10_Witness ==
    /\ pc = "serving"
    /\ last.op = "call_tool"
    /\ last.name = "get_user"
    /\ last.args = Undef
    /\ ~last.ok
    /\ last.err.code = "InternalError"

\* C17: a tools/call of test_connection never fails: for every remote outcome
\* it ends in a success envelope (one text item, no host error) whose
\* 'connected' field is the probe's boolean, true exactly for a 2xx response.
C17_TestConnectionNeverFails ==
    (last.op = "call_tool" /\ last.name = "test_connection")
        => /\ last.ok
           /\ last.err = NoError
           /\ last.nreq = 1
           /\ OneTextItem
           /\ JSONparse(last.content[1].text).ok
           /\ Arg(JSONparse(last.content[1].text).val, "connected")
                 = Bool(SuccessResponse(last.outcome))

C17_Witness ==
    /\ last.op = "call_tool"
    /\ last.name = "test_connection"
    /\ last.outcome = Outcome("response", 500, <<"Not", Space, "Found">>)
    /\ last.ok
    /\ Arg(JSONparse(last.content[1].text).val, "connected") = Bool(FALSE)

\* the names tools/call may be sent: the catalog's, the switch's case labels
\* and names that are in neither
CandidateNames ==
    ToolNames \cup {SwitchCases[i] : i \in 1..Len(SwitchCases)}
        \cup {ListToolsHandler[i] : i \in 1..Len(ListToolsHandler)}

RoutedNames == {name \in CandidateNames : Routed(name)}

ListedNames == {last.tools[i] : i \in 1..Len(last.tools)}

\* C18 as stated: in every reachable state tools/list returns the same fixed
\* set of 20 names, and it is the set of names tools/call routes to a case.
C18_TwentyNamesListedAndRouted ==
    last.op = "list_tools"
        => /\ Cardinality(ListedNames) = 20
           /\ ListedNames = RoutedNames

\* C18 as amended: the fixed set has 19 names, each listed once, and it is
\* the set of names tools/call routes to a case.
C18_NineteenNamesListedAndRouted ==
    last.op = "list_tools"
        => /\ last.ok
           /\ Len(last.tools) = 19
           /\ Cardinality(ListedNames) = 19
           /\ ListedNames = CatalogNames
           /\ ListedNames = RoutedNames

C18_Witness ==
    /\ last.op = "list_tools"
    /\ Cardinality(ListedNames) = 19
    /\ "custom_request" \in ListedNames \cap RoutedNames
    /\ "get_everything" \in CandidateNames \ RoutedNames
    /\ \E id \in CallIds : calls[id].st = "suspended"

\* the handlers that are suspended at the await of their outbound request
Suspended == {id \in DOMAIN calls : calls[id].st = "suspended"}

IdProp(name) ==
    CASE name = "get_user" -> "userId"
      [] name = "get_client" -> "clientId"
      [] name = "get_document" -> "documentId"
      [] name = "delete_webhook" -> "webhookId"
      [] OTHER -> ""

IdTools == {"get_user", "get_client", "get_document", "delete_webhook"}

\* the verb the claim gives for a tool
StatedVerb(name, args) ==
    CASE name \in {"create_valuation", "query_data", "create_webhook"} -> <<"POST">>
      [] name = "delete_webhook" -> <<"DELETE">>
      [] name = "custom_request" -> Arg(args, "method").s
      [] OTHER -> <<"GET">>

\* the path the claim gives for a tool
StatedPath(name, args) ==
    CASE name \in {"test_connection", "get_users"} -> <<"/users">>
      [] name = "get_user" -> <<"/users/">> \o Arg(args, "userId").s
      [] name = "get_clients" -> <<"/clients">>
      [] name = "get_client" -> <<"/clients/">> \o Arg(args, "clientId").s
      [] name = "get_portfolios" -> <<"/webapp">>
      [] name = "get_assets" -> <<"/assets">>
      [] name = "get_funds" -> <<"/funds">>
      [] name = "get_investments" -> <<"/investments">>
      [] name = "get_documents" -> <<"/documents-api">>
      [] name = "get_document" -> <<"/documents-api/">> \o Arg(args, "documentId").s
      [] name = "get_valuations" -> <<"/valuation-api">>
      [] name = "create_valuation" -> <<"/valuation-api">>
      [] name = "get_calculations" -> <<"/calcs-api">>
      [] name = "query_data" -> <<"/data-retrieval">>
      [] name = "get_webhooks" -> <<"/webhooks">>
      [] name = "create_webhook" -> <<"/webhooks">>
      [] name = "delete_webhook" -> <<"/webhooks/">> \o Arg(args, "webhookId").s
      [] name = "custom_request" -> Arg(args, "endpoint").s
      [] OTHER -> <<>>

\* the bag holds what the claim's row for the tool speaks of: the id x of an
\* id tool, the verb and the path of custom_request
RowApplies(name, args) ==
    /\ name \in IdTools
          => args.t = "obj" /\ Arg(args, IdProp(name)).t = "str"
    /\ name = "custom_request"
          => /\ args.t = "obj"
             /\ Arg(args, "method").t = "str"
             /\ Arg(args, "endpoint").t = "str"

\* C13: the outbound request of a catalog tool has the one verb and path of
\* the tool's row: GET /users/x, /clients/x, /documents-api/x and DELETE
\* /webhooks/x for an id x; GET on the list paths; POST /valuation-api,
\* /data-retrieval, /webhooks; custom_request the verb and path of its bag.
C13_FixedVerbAndPath ==
    \A id \in Suspended :
        RowApplies(calls[id].name, calls[id].args)
            => /\ calls[id].name \in CatalogNames
               /\ WireMethod(calls[id].req)
                     = StatedVerb(calls[id].name, calls[id].args)
               /\ WirePath(calls[id].req)
                     = StatedPath(calls[id].name, calls[id].args)

C13_Witness ==
    \E id \in Suspended :
        /\ calls[id].name = "custom_request"
        /\ WireMethod(calls[id].req) = <<"PUT">>
        /\ WirePath(calls[id].req) = <<"/funds/7">>

\* the value the remote service reads from the body of a request
BodyRead(req) == JSONparse(WireBody(req))

\* the request carries val as its body; no body when val is undefined
CarriesBody(req, val) ==
    /\ WireMethod(req) = <<"POST">>
    /\ IF val.t = "undef" THEN WireBody(req) = <<>>
       ELSE BodyRead(req).ok /\ BodyRead(req).val = val

\* C14: create_webhook posts to /webhooks with the argument bag as received
\* as the body; create_valuation and query_data post the value of their
\* 'data' / 'query' argument as the body.
C14_BodyIsBagOrItsField ==
    \A id \in Suspended :
        LET c == calls[id]
        IN  /\ c.name = "create_webhook"
                  => WirePath(c.req) = <<"/webhooks">> /\ CarriesBody(c.req, c.args)
            /\ c.name = "create_valuation"
                  => CarriesBody(c.req, Arg(c.args, "data"))
            /\ c.name = "query_data"
                  => CarriesBody(c.req, Arg(c.args, "query"))

C14_Witness ==
    \E id \in Suspended :
        /\ calls[id].name = "create_webhook"
        /\ HasProp(Props(calls[id].args), <<"retries">>)
        /\ BodyRead(calls[id].req).val = calls[id].args

WholeBagTools == {"get_users", "get_clients", "get_portfolios", "get_documents"}

FiltersTools ==
    {"get_assets", "get_funds", "get_investments", "get_valuations",
     "get_calculations"}

\* the keys and values of a bag as received; none when there is no bag
BagEntries(args) == IF args.t = "obj" THEN Props(args) ELSE <<>>

\* C15 as stated: for each of the nine list tools the query parameters of the
\* outbound GET are the argument bag as received: no key dropped, unwrapped,
\* added or renamed.
C15_ParamsAreTheBag ==
    \A id \in Suspended :
        calls[id].name \in WholeBagTools \cup FiltersTools
            => /\ WireMethod(calls[id].req) = <<"GET">>
               /\ WireParams(calls[id].req) = BagEntries(calls[id].args)

\* C15 as amended: get_users, get_clients, get_portfolios and get_documents
\* send the bag as received; get_assets, get_funds, get_investments,
\* get_valuations and get_calculations send the entries of the bag's
\* 'filters' value and drop every other key (no parameters without filters).
C15_ParamsAreTheBagOrItsFilters ==
    \A id \in Suspended :
        LET c == calls[id]
        IN  /\ c.name \in WholeBagTools \cup FiltersTools
                  => WireMethod(c.req) = <<"GET">>
            /\ c.name \in WholeBagTools
                  => WireParams(c.req) = BagEntries(c.args)
            /\ c.name \in FiltersTools
                  => WireParams(c.req)
                        = IF c.args.t = "obj"
                          THEN BagEntries(Arg(c.args, "filters"))
                          ELSE <<>>

C15_Witness ==
    \E id \in Suspended :
        /\ calls[id].name = "get_funds"
        /\ HasProp(Props(calls[id].args), <<"page">>)
        /\ WireParams(calls[id].req) = << <<<<"status">>, Word("active")>> >>

\* the bag is absent, or lacks a field the tool declares as required
LacksRequired(name, args) ==
    /\ RequiredFields(name) # {}
    /\ \/ args.t # "obj"
       \/ \E f \in RequiredFields(name) : ~HasProp(Props(args), <<f>>)

\* C16: a tools/call of a tool with declared required fields, with a bag that
\* lacks one of them or with no bag, fails without any outbound request: no
\* such call is suspended at a request, and it ends in an error with none sent.
C16_MissingRequiredIssuesNoRequest ==
    /\ \A id \in Suspended : ~LacksRequired(calls[id].name, calls[id].args)
    /\ (last.op = "call_tool" /\ LacksRequired(last.name, last.args))
          => ~last.ok /\ last.nreq = 0

(***************************************************************************)
(* The client under any configuration record                               *)
(*                                                                         *)
(* ILevelClient is exported: ClientSpec runs the server on a client that    *)
(* is constructed from any record of the ILevelConfig interface, not only  *)
(* from the record index.ts builds from the environment.                   *)
(***************************************************************************)
ValidEnv ==
    [ILEVEL_BASE_URL |-> Word("https://sandapi.ilevelsolutions.com"),
     ILEVEL_USERNAME |-> Word("alice"), ILEVEL_PASSWORD |-> Word("s3cret"),
     ILEVEL_SANDBOX |-> Word("true")]

\* apiVersion?: string: key absent, key present with the value undefined,
\* key present with a version
ApiVersionProps ==
    {<<>>,
     << <<<<"apiVersion">>, Undef>> >>,
     << <<<<"apiVersion">>, Word("v2")>> >>}

\* records of the interface ILevelConfig
ConfigRecords ==
    {Obj(<< <<<<"baseUrl">>, ValidEnv.ILEVEL_BASE_URL>>,
            <<<<"username">>, ValidEnv.ILEVEL_USERNAME>>,
            <<<<"password">>, ValidEnv.ILEVEL_PASSWORD>> >>
         \o sandbox \o version) :
        sandbox \in {<<>>, << <<<<"isSandbox">>, Bool(TRUE)>> >>,
                     << <<<<"isSandbox">>, Bool(FALSE)>> >>},
        version \in ApiVersionProps}

ClientInit ==
    /\ env = ValidEnv
    /\ pc = "configured"
    /\ exitCode = 0
    /\ config \in ConfigRecords
    /\ client = NoClient
    /\ probe = NoProbe
    /\ calls = [i \in CallIds |-> FreeCall]
    /\ netUsed = FALSE
    /\ last = NoLast

\* new ILevelClient(config) for the record at hand
NewClient ==
    /\ pc = "configured"
    /\ client' = ILevelClient(config)
    /\ pc' = "main"
    /\ UNCHANGED <<env, exitCode, config, probe, calls, netUsed, last>>

ClientNext ==
    \/ NewClient
    \/ Main
    \/ \E outcome \in Outcomes : ProbeSettle(outcome)
    \/ Connect
    \/ \E uri \in Uris : ReadResource(uri)
    \/ ListTools
    \/ Respond

ClientSpec == ClientInit /\ [][ClientNext]_vars

\* apiVersion is not supplied: the key is absent or its value is undefined
VersionNotSupplied == Arg(config, "apiVersion").t = "undef"

\* the base path {baseUrl}/api/{version}
BasePath(baseUrl, version) == baseUrl \o <<"/api/">> \o version

\* the apiVersion the configuration resource reports in the read that ended
ReportedVersion == Arg(JSONparse(last.contents[1].text).val, "apiVersion")

\* C20: for every configuration record without a supplied apiVersion (key
\* absent, or present with the value undefined) the client's base path is
\* {baseUrl}/api/v1, and the apiVersion the configuration resource reports is
\* the version segment of the client's base path.
C20_DefaultVersionIsV1 ==
    (client.built /\ VersionNotSupplied)
        => /\ client.baseURL = BasePath(Arg(config, "baseUrl").s, <<"v1">>)
           /\ (last.op = "read_resource" /\ last.ok)
                 => client.baseURL
                       = BasePath(Arg(config, "baseUrl").s, ReportedVersion.s)

(***************************************************************************)
(* Several tools/call handlers in flight                                   *)
(*                                                                         *)
(* ConcurrentSpec runs the server with MaxConcurrent handlers suspended at *)
(* the same time, on a remote service whose answer names the request it    *)
(* answers, so that an answer handed to the wrong handler shows.           *)
(***************************************************************************)
MaxConcurrent == 2

ValidEnvironments ==
    {e \in Environments : ~MissingRequired(e)}

ConcurrentNames == {"get_user", "get_client", "get_everything"}

\* the body of the remote service's answer to a request: its verb, path and
\* query parameters
EchoBody(req) ==
    JSONstringify(Obj(<< <<<<"verb">>, Str(WireMethod(req))>>,
                         <<<<"path">>, Str(WirePath(req))>>,
                         <<<<"query">>, Obj(WireParams(req))>> >>))

\* a silent remote and a client without timeout: nothing comes of a request
RemoteSilentNoTimeout(req) == {}

\* what may come of a request: the remote answers it with 200 or 404, or no
\* answer comes before the timeout
RemoteOutcomes(req) ==
    {Outcome("response", 200, EchoBody(req)),
     Outcome("response", 404, EchoBody(req)),
     Outcome("timeout", 0, <<>>)}

ConcurrentInit ==
    /\ env \in ValidEnvironments
    /\ pc = "start"
    /\ exitCode = 0
    /\ config = Undef
    /\ client = NoClient
    /\ probe = NoProbe
    /\ calls = [i \in 1..MaxConcurrent |-> FreeCall]
    /\ netUsed = FALSE
    /\ last = NoLast

ConcurrentNext ==
    \/ ValidateEnv
    \/ InitClient
    \/ Main
    \/ \E outcome \in Outcomes : ProbeSettle(outcome)
    \/ Connect
    \/ \E id \in DOMAIN calls, name \in ConcurrentNames :
          \E args \in ArgBags(name) : CallTool(id, name, args)
    \/ \E id \in DOMAIN calls :
          \E outcome \in RemoteOutcomes(calls[id].req) : HttpSettle(id, outcome)
    \/ ReadResource(ConfigUri)
    \/ Respond

ConcurrentSpec == ConcurrentInit /\ [][ConcurrentNext]_vars

\* the outbound request a tools/call of (name, args) issues, if it issues one
OwnRequest(name, args) == CallToolSwitch(name, args).req

\* how a tools/call of (name, args) ends when it is the only one in flight
\* and outcome is what comes of its request
DispatchedAlone(name, args, outcome) ==
    LET first == CallToolCatch(CallToolSwitch(name, args))
        alone == [st |-> "suspended", name |-> name, args |-> args,
                  req |-> first.req, nreq |-> 1]
    IN  IF first.kind = "await"
        THEN Completed("call_tool", name, args, "", outcome, 1,
                       CallToolCatch(CallToolResume(alone, Settle(outcome))))
        ELSE Completed("call_tool", name, args, "", NoOutcome, 0, first)

\* the tools/call that ended has the result of its own name, arguments and
\* outcome, and the outcome is one of its own request
OwnResult ==
    last.op = "call_tool"
        => /\ last = DispatchedAlone(last.name, last.args, last.outcome)
           /\ last.nreq = 1
                 => last.outcome \in RemoteOutcomes(OwnRequest(last.name, last.args))

\* a step leaves every handler that stays suspended as it was, and a handler
\* that is suspended ends only by the completion that bears its name and bag
OthersUntouched ==
    \A id \in DOMAIN calls :
        calls[id].st = "suspended"
            => \/ calls'[id] = calls[id]
               \/ /\ calls'[id] = FreeCall
                  /\ last'.op = "call_tool"
                  /\ last'.name = calls[id].name
                  /\ last'.args = calls[id].args
                  /\ \A other \in DOMAIN calls \ {id} : calls'[other] = calls[other]

\* what every handler reads, the config object and the client, stays as the
\* start of the process left it
SharedStateFixed ==
    pc = "serving" => config' = config /\ client' = client /\ env' = env

SettleOf(id) ==
    \E outcome \in RemoteOutcomes(calls[id].req) : HttpSettle(id, outcome)

\* ENABLED <<SettleOf(id)>>_vars, from the guard of HttpSettle
CanSettle(id) ==
    /\ pc = "serving"
    /\ last = NoLast
    /\ calls[id].st = "suspended"
    /\ RemoteOutcomes(calls[id].req) # {}

\* SF_vars(SettleOf(id)), with the enabling condition written out
StronglyFairSettle(id) ==
    []<><<SettleOf(id)>>_vars \/ <>[]~CanSettle(id)

Fairness ==
    /\ WF_vars(ValidateEnv)
    /\ WF_vars(InitClient)
    /\ WF_vars(Main)
    /\ WF_vars(\E outcome \in Outcomes : ProbeSettle(outcome))
    /\ WF_vars(Connect)
    /\ WF_vars(Respond)
    /\ \A id \in 1..MaxConcurrent : StronglyFairSettle(id)

FairSpec == ConcurrentSpec /\ Fairness

\* C12: every tools/call that has issued its outbound request eventually
\* completes, with success or with an error, given that its request settles
\* (an answer, a transport failure or the 30-second timeout): no handler
\* stays suspended forever.
C12_IssuedDispatchCompletes ==
    \A id \in 1..MaxConcurrent :
        (calls[id].st = "suspended")
            ~> (/\ calls[id].st = "free"
                /\ last.op = "call_tool"
                /\ last.nreq = 1
                /\ last.ok \/ last.err.code = "InternalError")

C12_Witness ==
    /\ last.op = "call_tool"
    /\ last.nreq = 1
    /\ last.outcome.kind = "timeout"
    /\ last.err.code = "InternalError"
    /\ \A id \in DOMAIN calls : calls[id].st = "free"
    /\ client.timeout = TimeoutMs

\* nothing has been served: no handler is suspended and none has ended
NothingServed ==
    last = NoLast /\ \A id \in DOMAIN calls : calls[id].st = "free"

\* the probe was issued once and has completed
ProbeCompleted == probe.st = "done" /\ probe.nreq = 1

\* C19: with all required configuration present, the start issues exactly one
\* connectivity probe and connects the transport only after it has completed;
\* the server reaches serving whether the probe gave true or false; nothing
\* is served before the probe has completed.
C19_OneProbeThenServing ==
    /\ [](probe.nreq <= 1)
    /\ [](pc \in {"connect", "serving"} => ProbeCompleted)
    /\ [](~ProbeCompleted => NothingServed)
    /\ [][pc = "probing" /\ pc' # pc => pc' = "connect"]_vars
    /\ [][pc' = "serving" /\ pc' # pc => pc = "connect" /\ ProbeCompleted]_vars
    /\ (pc = "start") ~> (pc = "serving")
    /\ \A connected \in BOOLEAN :
          (pc = "connect" /\ probe.isConnected = connected)
              ~> (pc = "serving" /\ probe.isConnected = connected)

C19_Witness ==
    /\ pc = "serving"
    /\ ProbeCompleted
    /\ ~probe.isConnected
    /\ last.op = "read_resource"
    /\ last.ok

==========================================================================
